---- MODULE Spec2Model ----
(***************************************************************************)
(* Model of ngkabra/wordle: the forward solver (wordle.py, class Wordle)   *)
(* and the reverse solver (reverse_wordle.py).                             *)
(*                                                                         *)
(* Strings are sequences of one-character strings.  The four coloured      *)
(* squares of HINTS_MAP are single characters, written here "BLACK",       *)
(* "WHITE", "YELLOW" and "GREEN".  Python's None is the value None, a      *)
(* raised exception is recorded in an err variable and stops the program   *)
(* (nothing in either file catches exceptions).                            *)
(***************************************************************************)
EXTENDS Integers, Sequences, FiniteSets, TLC

VARIABLES
    \* ---- reverse_wordle.py, reverse_wordle() ----
    rpc,            \* "loop": at input() of line 90; "finished": after line 106; "crashed"
    inv_index,      \* the shelf opened with writeback=True: key -> the cached set object
    candidates,     \* None, or the key of the shelf object that `candidates` is bound to
    accumulate,     \* list of status lines, each <<hint_str, len(candidates)>>
    line,           \* the last raw line returned by input()
    hint_str,       \* the local hint_str after line 91
    rerr,           \* exception that ended reverse_wordle(), or "none"
    \* ---- canonical_hint_str applied to one string ----
    npc,            \* "call" before the call, "returned" or "raised" after it
    narg,           \* the argument
    nres,           \* the returned value (None included), or KeyErr if it raised
    \* ---- wordle.py, class Wordle and Wordle.play() ----
    fpc,                \* "guess": before line 331; "input": at input() of line 338; "crashed"
    mode,               \* self.mode
    exact_matches,      \* self.exact_matches, Unset for None
    disallowed_letters, \* self.disallowed_letters
    included_letters,   \* self.included_letters
    guesses,            \* self.guesses
    bad_guesses,        \* keys of self.bad_guesses
    wordfreqs,          \* self.wordfreqs in iteration order, entries <<word, log-frequency>>
    letter_scores,      \* self.letter_scores (absent keys read as 0)
    play_guess,         \* the local guess of play()
    play_hint,          \* the local hint_str of play()
    ferr,               \* exception that ended play(), or "none"
    \* ---- the game ----
    hidden,         \* the word of the day when the feedback is computed from it, else None
    \* ---- get_hint_str applied to one (word, guess) pair ----
    hpc,            \* "call" before the call, "returned" after it
    h_word,         \* the argument word
    h_guess,        \* the argument guess
    h_res,          \* the returned hint string
    \* ---- create_inverted_indexes() ----
    builds,         \* completed runs of create_inverted_indexes on the shelf inv_index
    words_file,     \* words of wordle_words.txt
    dict_file       \* words of wordle_dict.txt

vars == <<rpc, inv_index, candidates, accumulate, line, hint_str, rerr,
          npc, narg, nres,
          fpc, mode, exact_matches, disallowed_letters, included_letters,
          guesses, bad_guesses, wordfreqs, letter_scores, play_guess, play_hint, ferr,
          hidden, hpc, h_word, h_guess, h_res, builds, words_file, dict_file>>

rvars == <<rpc, inv_index, candidates, accumulate, line, hint_str, rerr>>
nvars == <<npc, narg, nres>>
hvars == <<hpc, h_word, h_guess, h_res>>
bvars == <<builds, words_file, dict_file>>
xvars == <<hidden, hvars, bvars>>
fvars == <<fpc, mode, exact_matches, disallowed_letters, included_letters,
           guesses, bad_guesses, wordfreqs, letter_scores, play_guess, play_hint, ferr>>

----------------------------------------------------------------------------
(* Bounds *)

\* longest history of status lines a modelled reverse session accumulates
MaxHints == 3

\* most feedback rounds a modelled forward session applies
MaxRounds == 3

\* most runs of create_inverted_indexes on one shelf
MaxBuilds == 2

----------------------------------------------------------------------------
(* Values *)

None == <<"None">>
\* None as an entry of exact_matches
Unset == "None"
KeyErr == <<"KeyError">>

Range(s) == {s[i] : i \in DOMAIN s}

\* word and code literals
W_apple == <<"a", "p", "p", "l", "e">>
W_ample == <<"a", "m", "p", "l", "e">>
W_maple == <<"m", "a", "p", "l", "e">>
W_spelt == <<"s", "p", "e", "l", "t">>

S_end == <<"e", "n", "d">>
S_show == <<"s", "h", "o", "w">>
S_ggggg == <<"g", "g", "g", "g", "g">>

HintLetters == {"b", "y", "g"}
Glyphs == {"BLACK", "WHITE", "YELLOW", "GREEN"}

----------------------------------------------------------------------------
(* reverse_wordle.py: Feedback Normalizer *)

HINTS_MAP ==
    ("BLACK" :> "b") @@ ("WHITE" :> "b") @@ ("YELLOW" :> "y") @@ ("GREEN" :> "g")

\* str.lower() on one character
LowerMap ==
    ("B" :> "b") @@ ("Y" :> "y") @@ ("G" :> "g") @@
    ("E" :> "e") @@ ("N" :> "n") @@ ("D" :> "d")

Lower(s) == [i \in DOMAIN s |-> IF s[i] \in DOMAIN LowerMap THEN LowerMap[s[i]] ELSE s[i]]

Whitespace == {" "}

RECURSIVE LStrip(_)
LStrip(s) == IF s # <<>> /\ Head(s) \in Whitespace THEN LStrip(Tail(s)) ELSE s

RECURSIVE RStrip(_)
RStrip(s) ==
    IF s # <<>> /\ s[Len(s)] \in Whitespace
    THEN RStrip(SubSeq(s, 1, Len(s) - 1))
    ELSE s

\* str.strip()
Strip(s) == RStrip(LStrip(s))

\* HINTS_MAP[letter] or letter: the subscript raises KeyError for a letter
\* that is not a key of HINTS_MAP
canonical_hint(letter) ==
    IF letter \in DOMAIN HINTS_MAP
    THEN (IF HINTS_MAP[letter] # "" THEN HINTS_MAP[letter] ELSE letter)
    ELSE "KeyError"

\* returns None, or the joined string; KeyErr stands for the KeyError raised
\* by canonical_hint inside the join
canonical_hint_str(raw) ==
    LET s == Strip(Lower(raw)) IN
    IF s \in {<<>>, S_end, S_show} THEN None
    ELSE IF \E i \in DOMAIN s : canonical_hint(s[i]) = "KeyError" THEN KeyErr
    ELSE [i \in DOMAIN s |-> canonical_hint(s[i])]

----------------------------------------------------------------------------
(* reverse_wordle.py: feedback computation and offline build *)

\* hint() without the yellow case
hint_no_yellow(word, letter, index) ==
    IF word[index] = letter THEN "g" ELSE "b"

hint(word, letter, index) ==
    IF letter \in Range(word)
    THEN (IF word[index] = letter THEN "g" ELSE "y")
    ELSE "b"

get_hint_str(word, guess) == [idx \in DOMAIN guess |-> hint(word, guess[idx], idx)]

\* the pair's word stored as the whole entry instead of added to it
IndexAddReplace(idx, word, guess) ==
    LET h == get_hint_str(word, guess)
        base == IF h \in DOMAIN idx THEN idx ELSE idx @@ (h :> {})
    IN [base EXCEPT ![h] = {word}]

\* lines 79-81 for one (word, guess) pair
IndexAdd(idx, word, guess) ==
    LET h == get_hint_str(word, guess)
        base == IF h \in DOMAIN idx THEN idx ELSE idx @@ (h :> {})
    IN [base EXCEPT ![h] = @ \cup {word}]

RECURSIVE IndexGuesses(_, _, _)
IndexGuesses(idx, word, guessesLeft) ==
    IF guessesLeft = {} THEN idx
    ELSE LET g == CHOOSE x \in guessesLeft : TRUE
         IN IndexGuesses(IndexAdd(idx, word, g), word, guessesLeft \ {g})

RECURSIVE IndexWords(_, _, _)
IndexWords(idx, wordsLeft, all_words) ==
    IF wordsLeft = {} THEN idx
    ELSE LET w == CHOOSE x \in wordsLeft : TRUE
         IN IndexWords(IndexGuesses(idx, w, all_words), wordsLeft \ {w}, all_words)

\* the shelf after create_inverted_indexes ran on the shelf idx
create_inverted_indexes(idx, wordle_words, wordle_dict) ==
    IndexWords(idx, wordle_words, wordle_dict \cup wordle_words)

EmptyIndex == [k \in {} |-> {}]

\* contents of wordle_words.txt and wordle_dict.txt
WordleWords == {W_apple, W_ample, W_maple}
WordleDict == {W_spelt}

\* the shelf a query session opens
InitIndex == create_inverted_indexes(EmptyIndex, WordleWords, WordleDict)

----------------------------------------------------------------------------
(* wordle.py: class Wordle *)

NUMBER_OF_EXPLORE_ROUNDS == 2
VOWEL_MULTIPLIER == 1

Vowels == {"a", "e", "i", "o", "u"}

W_angle == <<"a", "n", "g", "l", "e">>
W_ankle == <<"a", "n", "k", "l", "e">>
W_xebec == <<"x", "e", "b", "e", "c">>
W_shirt == <<"s", "h", "i", "r", "t">>
W_mufti == <<"m", "u", "f", "t", "i">>

\* word-frequency tables get_wordfreqs() may return (log-frequency of a word
\* counted once is 0)
CorpusA == << <<W_apple, 5>>, <<W_angle, 4>>, <<W_ankle, 3>>, <<W_xebec, 2>> >>
CorpusB == << <<W_shirt, 3>>, <<W_apple, 5>>, <<W_angle, 4>>, <<W_mufti, 0>> >>
CorpusC == << <<W_apple, 5>>, <<W_mufti, 0>> >>
Corpora == {CorpusA, CorpusB, CorpusC}

CorpusWords(wf) == {wf[i][1] : i \in DOMAIN wf}
Alphabet == UNION {Range(w) : w \in UNION {CorpusWords(c) : c \in Corpora}}

Freq(wf, word) == wf[CHOOSE i \in DOMAIN wf : wf[i][1] = word][2]

\* __init__, lines 61-89
InitForwardState ==
    /\ mode = "EXPLORE"
    /\ exact_matches = [i \in 1..5 |-> Unset]
    /\ disallowed_letters = {}
    /\ included_letters = {}
    /\ guesses = 0
    /\ bad_guesses = {}
    /\ letter_scores = [c \in Alphabet |-> 0]

\* get_hint_str and create_inverted_indexes are not running
InitHintIdle ==
    /\ hpc = "idle"
    /\ h_word = <<>>
    /\ h_guess = <<>>
    /\ h_res = <<>>

InitBuildIdle ==
    /\ builds = 0
    /\ words_file = WordleWords
    /\ dict_file = WordleDict

\* the forward solver's variables in a run of the other program
InitForwardIdle ==
    /\ fpc = "idle"
    /\ InitForwardState
    /\ wordfreqs = CorpusA
    /\ play_guess = None
    /\ play_hint = <<>>
    /\ ferr = "none"

\* regexp_guess: ^...$ with the exact match at a known position and
\* [^disallowed] (or [a-z]) at the others
regexp_guess(em, dis, word) ==
    /\ Len(word) = 5
    /\ \A i \in 1..5 :
         IF em[i] # Unset THEN word[i] = em[i] ELSE word[i] \notin dis

\* regexp_explore: ^[^skip]{5}$, or ^.{5}$ when there is nothing to skip
regexp_explore(em, dis, inc, word) ==
    LET skip_letters == dis \cup inc \cup {em[i] : i \in {j \in 1..5 : em[j] # Unset}}
    IN /\ Len(word) = 5
       /\ \A i \in 1..5 : word[i] \notin skip_letters

\* regexp().match(word)
regexp(md, em, dis, inc, word) ==
    IF md = "EXPLORE" THEN regexp_explore(em, dis, inc, word)
    ELSE regexp_guess(em, dis, word)

\* eligible(word) asking for one of the included letters only
eligible_any(md, inc, word) ==
    IF md = "EXPLORE" THEN TRUE ELSE inc = {} \/ inc \cap Range(word) # {}

\* eligible(word)
eligible(md, inc, word) ==
    IF md = "EXPLORE" THEN TRUE ELSE inc \subseteq Range(word)

\* the same, a letter counted once however often it occurs in the word
RECURSIVE AddLettersOnce(_, _, _, _, _)
AddLettersOnce(scores, md, word, freq, i) ==
    IF i > Len(word) THEN scores
    ELSE LET f == IF md = "EXPLORE" /\ word[i] \in Vowels
                  THEN freq * VOWEL_MULTIPLIER ELSE freq
             seen == word[i] \in {word[j] : j \in 1..(i - 1)}
         IN AddLettersOnce(IF seen THEN scores ELSE [scores EXCEPT ![word[i]] = @ + f],
                           md, word, f, i + 1)

\* lines 199-205 for the letters i.. of one word; freq is multiplied in place
RECURSIVE AddLetters(_, _, _, _, _)
AddLetters(scores, md, word, freq, i) ==
    IF i > Len(word) THEN scores
    ELSE LET f == IF md = "EXPLORE" /\ word[i] \in Vowels
                  THEN freq * VOWEL_MULTIPLIER ELSE freq
         IN AddLetters([scores EXCEPT ![word[i]] = @ + f], md, word, f, i + 1)

\* compute_letter_scores: the loop of lines 197-205 from entry i on
RECURSIVE compute_letter_scores(_, _, _, _, _, _, _)
compute_letter_scores(scores, wf, md, em, dis, inc, i) ==
    IF i > Len(wf) THEN scores
    ELSE compute_letter_scores(
            IF regexp(md, em, dis, inc, wf[i][1])
            THEN AddLetters(scores, md, wf[i][1], wf[i][2], 1)
            ELSE scores,
            wf, md, em, dis, inc, i + 1)

RECURSIVE SumOver(_, _)
SumOver(scores, letters) ==
    IF letters = {} THEN 0
    ELSE LET c == CHOOSE x \in letters : TRUE
         IN scores[c] + SumOver(scores, letters \ {c})

word_score_explore(scores, word) == SumOver(scores, Range(word))

word_score_guess(wf, word) == Freq(wf, word)

word_score(md, scores, wf, word) ==
    IF md = "EXPLORE" THEN word_score_explore(scores, word)
    ELSE word_score_guess(wf, word)

\* a scan that forgets the rejected words
SkipBadNever(bad, word) == FALSE

\* line 314: words rejected as not-a-word are passed over
SkipBad(bad, word) == word \in bad

\* the scan of lines 313-324 from entry i on; best is best_word
RECURSIVE GuessScan(_, _, _, _, _, _, _, _, _)
GuessScan(best, scores, wf, md, em, dis, inc, bad, i) ==
    IF i > Len(wf) THEN best
    ELSE LET word == wf[i][1]
             score == word_score(md, scores, wf, word)
             take == /\ ~SkipBad(bad, word)
                     /\ regexp(md, em, dis, inc, word)
                     /\ eligible(md, inc, word)
                     /\ score > best[2]
         IN GuessScan(IF take THEN <<word, score>> ELSE best,
                      scores, wf, md, em, dis, inc, bad, i + 1)

\* guess(): [word |-> best_word[0], scores |-> self.letter_scores]
Guess(wf, md, em, dis, inc, bad) ==
    LET scores == compute_letter_scores([c \in Alphabet |-> 0], wf, md, em, dis, inc, 1)
    IN [word |-> GuessScan(<<None, 0>>, scores, wf, md, em, dis, inc, bad, 1)[1],
        scores |-> scores]

\* decide_mode leaving EXPLORE one round late
decide_mode_late(md, n) == IF n > NUMBER_OF_EXPLORE_ROUNDS THEN "GUESS" ELSE md

\* decide_mode leaving EXPLORE one round early
decide_mode_early(md, n) == IF n >= NUMBER_OF_EXPLORE_ROUNDS - 1 THEN "GUESS" ELSE md

\* decide_mode assigning the mode of the round count
decide_mode_exact(md, n) == IF n = NUMBER_OF_EXPLORE_ROUNDS THEN "GUESS" ELSE "EXPLORE"

\* decide_mode
decide_mode(md, n) == IF n >= NUMBER_OF_EXPLORE_ROUNDS THEN "GUESS" ELSE md

\* add_hints taking yellow for absent
RECURSIVE add_hints_yellow_absent(_, _, _, _, _, _)
add_hints_yellow_absent(em, dis, inc, g, h, pos) ==
    IF pos > Len(g) \/ pos > Len(h)
    THEN [raises |-> FALSE, em |-> em, dis |-> dis, inc |-> inc]
    ELSE CASE h[pos] = "b" -> add_hints_yellow_absent(em, dis \cup {g[pos]}, inc, g, h, pos + 1)
           [] h[pos] = "y" -> add_hints_yellow_absent(em, dis \cup {g[pos]}, inc, g, h, pos + 1)
           [] h[pos] = "g" ->
                add_hints_yellow_absent([em EXCEPT ![pos] = g[pos]], dis, inc, g, h, pos + 1)
           [] OTHER -> [raises |-> TRUE, em |-> em, dis |-> dis, inc |-> inc]

\* add_hints: the loop over zip(guess, hint_str) from position pos on; the
\* letters before an unknown hint symbol have been applied when it raises
RECURSIVE add_hints(_, _, _, _, _, _)
add_hints(em, dis, inc, g, h, pos) ==
    IF pos > Len(g) \/ pos > Len(h)
    THEN [raises |-> FALSE, em |-> em, dis |-> dis, inc |-> inc]
    ELSE CASE h[pos] = "b" -> add_hints(em, dis \cup {g[pos]}, inc, g, h, pos + 1)
           [] h[pos] = "y" -> add_hints(em, dis, inc \cup {g[pos]}, g, h, pos + 1)
           [] h[pos] = "g" -> add_hints([em EXCEPT ![pos] = g[pos]], dis, inc, g, h, pos + 1)
           [] OTHER -> [raises |-> TRUE, em |-> em, dis |-> dis, inc |-> inc]

----------------------------------------------------------------------------
(* wordle.py: Wordle.play *)

S_bad == <<"b", "a", "d">>

\* lines the Session Driver types at "How did that go?"
ForwardLines ==
    { <<"b", "b", "b", "b", "b">>, <<"g", "g", "g", "g", "g">>,
      <<"y", "y", "y", "y", "y">>, <<"g", "b", "b", "b", "b">>,
      <<"b", "g", "y", "b", "b">>, <<"y", "b", "b", "b", "g">>,
      <<"b", "y", "b", "g", "y">>,
      <<" ", "b", "b", "y", "b", "g", " ">>,
      <<"b", "y", "x", "b", "b">>, <<"B", "B", "B", "B", "B">>,
      <<"g", "y">>, <<>>, <<"b", "b", "b", "b", "b", "y">>,
      S_bad, <<"b", "a", "d", " ">> }

InitForwardCore ==
    /\ fpc = "guess"
    /\ InitForwardState
    /\ wordfreqs \in Corpora
    /\ play_guess = None
    /\ play_hint = <<>>
    /\ ferr = "none"
    /\ rpc = "idle"
    /\ inv_index = InitIndex
    /\ candidates = None
    /\ accumulate = <<>>
    /\ line = <<>>
    /\ hint_str = None
    /\ rerr = "none"
    /\ npc = "idle"
    /\ narg = <<>>
    /\ nres = None
    /\ InitHintIdle
    /\ InitBuildIdle

InitForward ==
    /\ InitForwardCore
    /\ hidden = None

\* lines 331-337: ask guess(); with no guess in EXPLORE mode switch to GUESS
\* and go round the loop again, otherwise print the guess
PlayGuess ==
    /\ fpc = "guess"
    /\ LET r == Guess(wordfreqs, mode, exact_matches, disallowed_letters,
                      included_letters, bad_guesses)
       IN /\ letter_scores' = r.scores
          /\ play_guess' = r.word
          /\ IF r.word = None /\ mode = "EXPLORE"
             THEN /\ mode' = "GUESS"
                  /\ fpc' = "guess"
             ELSE /\ mode' = mode
                  /\ fpc' = "input"
    /\ UNCHANGED <<exact_matches, disallowed_letters, included_letters,
                   guesses, bad_guesses, wordfreqs, play_hint, ferr>>
    /\ UNCHANGED <<rvars, nvars, xvars>>

\* a rejection that is not recorded
MarkBadForget(bad, g) == bad

\* line 340: self.bad_guesses[guess] = True
MarkBad(bad, g) == bad \cup {g}

\* lines 338-344: read the answer, one of lines, and apply it
Respond(lines) ==
    /\ fpc = "input"
    /\ guesses < MaxRounds
    /\ \E raw \in lines :
         LET h == Strip(raw) IN
         /\ play_hint' = h
         /\ IF h = S_bad
            THEN /\ bad_guesses' = MarkBad(bad_guesses, play_guess)
                 /\ fpc' = "guess"
                 /\ UNCHANGED <<mode, exact_matches, disallowed_letters,
                                included_letters, guesses, ferr>>
            ELSE IF play_guess = None
            THEN \* zip(None, hint_str) raises TypeError
                 /\ fpc' = "crashed"
                 /\ ferr' = "TypeError"
                 /\ UNCHANGED <<mode, exact_matches, disallowed_letters,
                                included_letters, guesses, bad_guesses>>
            ELSE LET r == add_hints(exact_matches, disallowed_letters,
                                    included_letters, play_guess, h, 1)
                 IN /\ exact_matches' = r.em
                    /\ disallowed_letters' = r.dis
                    /\ included_letters' = r.inc
                    /\ UNCHANGED bad_guesses
                    /\ IF r.raises
                       THEN /\ fpc' = "crashed"
                            /\ ferr' = "ValueError"
                            /\ UNCHANGED <<mode, guesses>>
                       ELSE /\ guesses' = guesses + 1
                            /\ mode' = decide_mode(mode, guesses')
                            /\ fpc' = "guess"
                            /\ UNCHANGED ferr
    /\ UNCHANGED <<wordfreqs, letter_scores, play_guess>>
    /\ UNCHANGED <<rvars, nvars, xvars>>

\* the Session Driver types any of ForwardLines
PlayRespond == Respond(ForwardLines)

\* input() raises EOFError when the Session Driver closes the input
PlayEOF ==
    /\ fpc = "input"
    /\ fpc' = "crashed"
    /\ ferr' = "EOFError"
    /\ UNCHANGED <<mode, exact_matches, disallowed_letters, included_letters,
                   guesses, bad_guesses, wordfreqs, letter_scores, play_guess, play_hint>>
    /\ UNCHANGED <<rvars, nvars, xvars>>

NextForward == PlayGuess \/ PlayRespond \/ PlayEOF

SpecForward == InitForward /\ [][NextForward]_vars

\* a session against a game whose word of the day is a corpus word and whose
\* feedback is get_hint_str of that word (or "bad")
InitHidden ==
    /\ InitForwardCore
    /\ hidden \in CorpusWords(wordfreqs)

HonestLines ==
    IF play_guess = None THEN {S_bad}
    ELSE {S_bad, get_hint_str(hidden, play_guess)}

PlayRespondHonest == Respond(HonestLines)

NextHidden == PlayGuess \/ PlayRespondHonest \/ PlayEOF

SpecHidden == InitHidden /\ [][NextHidden]_vars

----------------------------------------------------------------------------
(* reverse_wordle.py: online query loop *)

\* glyph spelling of a canonical code, absent letters as black squares
Glyph(code) ==
    [i \in DOMAIN code |->
        CASE code[i] = "b" -> "BLACK"
          [] code[i] = "y" -> "YELLOW"
          [] OTHER -> "GREEN"]

\* the same with white squares
GlyphW(code) == [i \in DOMAIN code |-> IF code[i] = "b" THEN "WHITE" ELSE Glyph(code)[i]]

\* lines the Session Driver types into the reverse solver
ReverseLines ==
    {Glyph(k) : k \in DOMAIN InitIndex}
    \cup {GlyphW(<<"g", "b", "g", "g", "g">>), <<" ">> \o Glyph(<<"y", "y", "g", "g", "g">>)}
    \cup {Glyph(<<"b", "b", "b", "b", "b">>), Glyph(<<"y", "g">>)}
    \cup {<<>>, <<" ", " ">>, S_end, <<"E", "N", "D">>, S_show}
    \cup {<<"g", "y", "g", "g", "g">>, <<"G", "b", "g", "g", "g">>}

InitOther ==
    /\ npc = "idle"
    /\ narg = <<>>
    /\ nres = None
    /\ InitForwardIdle
    /\ InitHintIdle
    /\ InitBuildIdle

InitReverseCore ==
    /\ rpc = "loop"
    /\ inv_index = InitIndex
    /\ candidates = None
    /\ accumulate = <<>>
    /\ line = <<>>
    /\ hint_str = None
    /\ rerr = "none"
    /\ InitOther

InitReverse ==
    /\ InitReverseCore
    /\ hidden = None

\* bool(candidates): None and the empty set are falsy
Truthy(idx, cand) == cand # None /\ idx[cand] # {}

\* the set `candidates` is bound to
CandidateSet == IF candidates = None THEN {} ELSE inv_index[candidates]

\* lines 98-101: `candidates = matches` binds candidates to the shelf's own
\* cached object; `candidates &= matches` updates that object in place
NextCandidates(idx, cand, key) == IF ~Truthy(idx, cand) THEN key ELSE cand

\* `candidates -= matches` in place of `candidates &= matches`
NextIndexDifference(idx, cand, key) ==
    IF ~Truthy(idx, cand) THEN idx
    ELSE [idx EXCEPT ![cand] = @ \ idx[key]]

NextIndex(idx, cand, key) ==
    IF ~Truthy(idx, cand) THEN idx
    ELSE [idx EXCEPT ![cand] = @ \cap idx[key]]

\* a lookup that answers a missing key with a fresh empty set
ShelfGetDefault(idx, key) ==
    IF key \in DOMAIN idx
    THEN [raises |-> FALSE, shelf |-> idx]
    ELSE [raises |-> FALSE, shelf |-> idx @@ (key :> {})]

\* inv_index[key] of line 97: the shelf subscript raises KeyError for a missing
\* key and leaves the shelf as it is
ShelfGet(idx, key) ==
    IF key \in DOMAIN idx
    THEN [raises |-> FALSE, shelf |-> idx]
    ELSE [raises |-> TRUE, shelf |-> idx]

\* one iteration of the while loop, lines 90-104 (and 105-106 after a break)
ReverseIteration(lines) ==
    /\ rpc = "loop"
    /\ Len(accumulate) < MaxHints
    /\ \E l \in lines :
         LET h == canonical_hint_str(l) IN
         /\ line' = l
         /\ IF h = KeyErr
            THEN /\ rpc' = "crashed"
                 /\ rerr' = "KeyError:HINTS_MAP"
                 /\ hint_str' = l
                 /\ UNCHANGED <<inv_index, candidates, accumulate>>
            ELSE IF h = None \/ h = <<>> \/ h = S_ggggg
            THEN /\ hint_str' = h
                 /\ UNCHANGED <<rpc, rerr, inv_index, candidates, accumulate>>
            ELSE IF h = S_end
            THEN /\ hint_str' = h
                 /\ rpc' = "finished"
                 /\ UNCHANGED <<rerr, inv_index, candidates, accumulate>>
            ELSE IF ShelfGet(inv_index, h).raises
            THEN /\ hint_str' = h
                 /\ rpc' = "crashed"
                 /\ rerr' = "KeyError:inv_index"
                 /\ UNCHANGED <<inv_index, candidates, accumulate>>
            ELSE LET shelf == ShelfGet(inv_index, h).shelf IN
                 /\ hint_str' = h
                 /\ candidates' = NextCandidates(shelf, candidates, h)
                 /\ inv_index' = NextIndex(shelf, candidates, h)
                 /\ accumulate' = Append(accumulate,
                        <<h, Cardinality(inv_index'[candidates'])>>)
                 /\ UNCHANGED <<rpc, rerr>>
    /\ UNCHANGED nvars
    /\ UNCHANGED fvars
    /\ UNCHANGED xvars

\* the Session Driver types any of ReverseLines
ReverseStep == ReverseIteration(ReverseLines)

\* input() raises EOFError when the Session Driver closes the input
ReverseEOF ==
    /\ rpc = "loop"
    /\ rpc' = "crashed"
    /\ rerr' = "EOFError"
    /\ UNCHANGED <<inv_index, candidates, accumulate, line, hint_str>>
    /\ UNCHANGED nvars
    /\ UNCHANGED fvars
    /\ UNCHANGED xvars

NextReverse == ReverseStep \/ ReverseEOF

SpecReverse == InitReverse /\ [][NextReverse]_vars

\* a query session in which every hint is the feedback of some acceptable
\* guess against the hidden word, a word of wordle_words.txt
InitReverseHonest ==
    /\ InitReverseCore
    /\ hidden \in WordleWords

HonestReverseLines ==
    {Glyph(get_hint_str(hidden, g)) : g \in WordleWords \cup WordleDict} \cup {<<>>}

ReverseStepHonest == ReverseIteration(HonestReverseLines)

NextReverseHonest == ReverseStepHonest \/ ReverseEOF

SpecReverseHonest == InitReverseHonest /\ [][NextReverseHonest]_vars

----------------------------------------------------------------------------
(* get_hint_str applied once to a (word, guess) pair *)

InitReverseIdle ==
    /\ rpc = "idle"
    /\ inv_index = InitIndex
    /\ candidates = None
    /\ accumulate = <<>>
    /\ line = <<>>
    /\ hint_str = None
    /\ rerr = "none"

InitNormIdle ==
    /\ npc = "idle"
    /\ narg = <<>>
    /\ nres = None

HintWords ==
    {W_apple, W_ample, W_maple, W_spelt, W_angle, W_ankle, W_xebec, W_shirt, W_mufti}

InitHint ==
    /\ hpc = "call"
    /\ h_word \in HintWords
    /\ h_guess \in HintWords
    /\ h_res = <<>>
    /\ hidden = None
    /\ InitReverseIdle
    /\ InitNormIdle
    /\ InitForwardIdle
    /\ InitBuildIdle

HintCall ==
    /\ hpc = "call"
    /\ h_res' = get_hint_str(h_word, h_guess)
    /\ hpc' = "returned"
    /\ UNCHANGED <<h_word, h_guess, hidden, bvars>>
    /\ UNCHANGED <<rvars, nvars, fvars>>

NextHint == HintCall

SpecHint == InitHint /\ [][NextHint]_vars

----------------------------------------------------------------------------
(* create_inverted_indexes run on a shelf, once and again *)

BuildPool == {W_apple, W_ample, W_maple, W_spelt}

InitBuild ==
    /\ builds = 0
    /\ words_file \in SUBSET BuildPool
    /\ dict_file \in SUBSET BuildPool
    /\ rpc = "idle"
    /\ inv_index = EmptyIndex
    /\ candidates = None
    /\ accumulate = <<>>
    /\ line = <<>>
    /\ hint_str = None
    /\ rerr = "none"
    /\ hidden = None
    /\ InitNormIdle
    /\ InitForwardIdle
    /\ InitHintIdle

\* lines 70-81: one run over the shelf as the last run left it
Build ==
    /\ builds < MaxBuilds
    /\ inv_index' = create_inverted_indexes(inv_index, words_file, dict_file)
    /\ builds' = builds + 1
    /\ UNCHANGED <<words_file, dict_file, hidden, hvars>>
    /\ UNCHANGED <<rpc, candidates, accumulate, line, hint_str, rerr>>
    /\ UNCHANGED <<nvars, fvars>>

NextBuild == Build

SpecBuild == InitBuild /\ [][NextBuild]_vars

----------------------------------------------------------------------------
(* canonical_hint_str applied once to a string *)

CanonicalCodes == [1..5 -> HintLetters]

NormInputs ==
    CanonicalCodes
    \cup [1..5 -> {"BLACK", "YELLOW", "GREEN"}]
    \cup {<<>>, <<" ">>, S_end, S_show, <<"E", "N", "D">>, <<"WHITE", "G">>,
          <<" ", "GREEN", "WHITE", " ">>}

InitNormalizer ==
    /\ npc = "call"
    /\ narg \in NormInputs
    /\ nres = None
    /\ rpc = "idle"
    /\ inv_index = InitIndex
    /\ candidates = None
    /\ accumulate = <<>>
    /\ line = <<>>
    /\ hint_str = None
    /\ rerr = "none"
    /\ InitForwardIdle
    /\ InitHintIdle
    /\ InitBuildIdle
    /\ hidden = None

Normalize ==
    /\ npc = "call"
    /\ nres' = canonical_hint_str(narg)
    /\ npc' = IF nres' = KeyErr THEN "raised" ELSE "returned"
    /\ UNCHANGED narg
    /\ UNCHANGED rvars
    /\ UNCHANGED fvars
    /\ UNCHANGED xvars

NextNormalizer == Normalize

SpecNormalizer == InitNormalizer /\ [][NextNormalizer]_vars

----------------------------------------------------------------------------
(* Claims about the reverse path *)

RECURSIVE InterAll(_, _)
InterAll(idx, codes) ==
    IF Len(codes) = 1 THEN idx[codes[1]]
    ELSE idx[codes[Len(codes)]] \cap InterAll(idx, SubSeq(codes, 1, Len(codes) - 1))

ProcessedCodes == [i \in DOMAIN accumulate |-> accumulate[i][1]]

\* C1: the candidate-set size reported after each processed code is at most
\* the size reported after the previously processed code.
C1_SizeNonIncreasing ==
    \A i \in DOMAIN accumulate :
        i > 1 => accumulate[i][2] <= accumulate[i - 1][2]

\* C2: after processing real codes c1..cn (n >= 1) the running candidate set
\* is index[c1] \cap ... \cap index[cn], index taken as at session start.
C2_RunningIntersection ==
    accumulate # <<>> => CandidateSet = InterAll(InitIndex, ProcessedCodes)

\* C3: the inverted index is read-only during querying: every index[k] is
\* what it was at session start.
C3_IndexReadOnly == inv_index = InitIndex

\* C4: when the Session Driver enters "end" as a hint line, the query loop
\* terminates (and prints the history): the loop is finished once that line
\* has been read.
C4_EndFinishes == line = S_end => rpc = "finished"

\* C5: canonical_hint_str returns every 5-character string over {b, y, g}
\* unchanged, without an error and without the ignore sentinel.
C5_CanonicalUnchanged ==
    (npc # "call" /\ narg \in CanonicalCodes) => (npc = "returned" /\ nres = narg)

\* C6: a normalized code with no entry in the inverted index ends the step
\* with a hard error; the session does not continue, and neither the
\* candidate set nor the history gains an entry for that code.
C6_UnknownHintHardError ==
    [][ LET h == canonical_hint_str(line') IN
        (/\ rpc = "loop"
         /\ rerr' # "EOFError"
         /\ h \notin {KeyErr, None, S_ggggg, S_end}
         /\ h \notin DOMAIN inv_index)
        => (/\ rpc' = "crashed"
            /\ rerr' = "KeyError:inv_index"
            /\ candidates' = candidates
            /\ accumulate' = accumulate
            /\ inv_index' = inv_index) ]_vars

C6_Witness ==
    /\ rerr = "KeyError:inv_index"
    /\ accumulate # <<>>
    /\ hint_str \notin DOMAIN inv_index

----------------------------------------------------------------------------
(* Claims about the forward solver *)

\* corpus words that are not rejected and pass the EXPLORE filter
ExploreEligible ==
    {w \in CorpusWords(wordfreqs) \ bad_guesses :
        regexp_explore(exact_matches, disallowed_letters, included_letters, w)}

\* the letter scores guess() computes in EXPLORE mode in this state
ExploreScores ==
    compute_letter_scores([c \in Alphabet |-> 0], wordfreqs, "EXPLORE",
                          exact_matches, disallowed_letters, included_letters, 1)

ExplorePositive == {w \in ExploreEligible : word_score_explore(ExploreScores, w) > 0}

\* a feedback application (not "bad") has just completed
FeedbackApplied == fpc = "input" /\ fpc' = "guess" /\ play_hint' # S_bad

\* C7: a word answered with "bad" is never returned by guess() again: the
\* guess put before the Session Driver is not one of the rejected words.
C7_RejectedNeverProposed ==
    fpc = "input" => play_guess \notin (bad_guesses \ {None})

C7_Witness ==
    /\ fpc = "input"
    /\ play_guess # None
    /\ guesses >= 1
    /\ \E w \in bad_guesses \ {None} :
         /\ regexp(mode, exact_matches, disallowed_letters, included_letters, w)
         /\ eligible(mode, included_letters, w)
         /\ word_score(mode, letter_scores, wordfreqs, w)
              > word_score(mode, letter_scores, wordfreqs, play_guess)

\* C8: with a budget of 2, guesses >= 2 implies mode = GUESS in every state;
\* a "bad" response leaves the round count alone and an applied feedback
\* adds one to it, so that the second applied feedback ends in GUESS mode.
C8_BudgetForcesGuess ==
    /\ [](guesses >= NUMBER_OF_EXPLORE_ROUNDS => mode = "GUESS")
    /\ [][ (fpc = "input" /\ fpc' = "guess") =>
             IF play_hint' = S_bad
             THEN guesses' = guesses
             ELSE /\ guesses' = guesses + 1
                  /\ (guesses' = 2 => mode' = "GUESS") ]_vars

C8_Witness ==
    /\ wordfreqs = CorpusB
    /\ fpc = "guess"
    /\ guesses = 2
    /\ play_guess = W_shirt
    /\ play_hint # S_bad
    /\ bad_guesses # {}
    /\ mode = "GUESS"

C10_GuessIsTerminal ==
    /\ mode = "EXPLORE"
    /\ [][mode = "GUESS" => mode' = "GUESS"]_vars

C10_Witness ==
    /\ mode = "GUESS"
    /\ guesses = 3
    /\ fpc = "guess"
    /\ bad_guesses # {}

\* corpus words guess() counts as matches in mode md: not rejected, matched
\* by the mode's regexp and passing eligible()
Eligible(md) ==
    {w \in CorpusWords(wordfreqs) \ bad_guesses :
        /\ regexp(md, exact_matches, disallowed_letters, included_letters, w)
        /\ eligible(md, included_letters, w)}

\* C11: no letter is at once in disallowed_letters and in included_letters
\* or exact_matches (a feedback that would put one in both is rejected).
C11_NoConflictingLetter ==
    disallowed_letters \cap (included_letters \cup (Range(exact_matches) \ {Unset})) = {}

\* C12: guess() returns None exactly when no corpus word is eligible, and
\* otherwise an eligible word whose score is maximal among the eligible words.
C12_GuessIsArgmax ==
    [][ fpc = "guess" =>
          LET E == Eligible(mode)
              score(w) == word_score(mode, letter_scores', wordfreqs, w)
          IN IF E = {} THEN play_guess' = None
             ELSE /\ play_guess' \in E
                  /\ \A x \in E : score(x) <= score(play_guess') ]_vars

ValidHint(h) == Len(h) = 5 /\ Range(h) \subseteq HintLetters

\* C13: a feedback code that is not 5 symbols long or has a symbol outside
\* {b, y, g} fails with the invalid-hint error and the round count stays.
C13_InvalidHintRejected ==
    [][ (/\ fpc = "input"
         /\ ferr' # "EOFError"
         /\ play_guess # None
         /\ play_hint' # S_bad
         /\ ~ValidHint(play_hint'))
        => (fpc' = "crashed" /\ ferr' = "ValueError" /\ guesses' = guesses) ]_vars

\* C14: with the feedback computed from a fixed hidden corpus word, the set
\* of GUESS-eligible words after each applied feedback is a subset of the set
\* before it, and the hidden word stays GUESS-eligible while it is not rejected.
C14_ForwardNarrowing ==
    /\ [](hidden \notin bad_guesses => hidden \in Eligible("GUESS"))
    /\ [][FeedbackApplied => Eligible("GUESS")' \subseteq Eligible("GUESS")]_vars

C14_Witness ==
    /\ guesses >= 2
    /\ bad_guesses # {}
    /\ hidden \notin bad_guesses
    /\ Eligible("GUESS") = {hidden}
    /\ Cardinality(CorpusWords(wordfreqs) \ bad_guesses) > 1

\* C15: answering "bad" adds the guess to bad_guesses and leaves the round
\* count, the exact matches, the disallowed and included letters and the mode
\* as they were.
C15_BadOnlyRejects ==
    [][ (fpc = "input" /\ play_hint' = S_bad /\ ferr' = "none")
        => (/\ bad_guesses' = bad_guesses \cup {play_guess}
            /\ guesses' = guesses
            /\ exact_matches' = exact_matches
            /\ disallowed_letters' = disallowed_letters
            /\ included_letters' = included_letters
            /\ mode' = mode) ]_vars

C15_Witness ==
    /\ fpc = "guess"
    /\ play_hint = S_bad
    /\ play_guess # None
    /\ play_guess \in bad_guesses
    /\ guesses >= 1
    /\ disallowed_letters # {}
    /\ included_letters # {}

\* the GUESS-mode filter as the claim words it
GuessFilter(x) ==
    /\ x \notin bad_guesses
    /\ \A i \in 1..5 : exact_matches[i] # Unset => x[i] = exact_matches[i]
    /\ \A i \in 1..5 : exact_matches[i] = Unset => x[i] \notin disallowed_letters
    /\ \A c \in included_letters : \E i \in 1..5 : x[i] = c

\* C16: a corpus word is eligible in GUESS mode exactly when it is not
\* rejected, has the exact match at every fixed position, has no disallowed
\* letter at any other position and contains every included letter; a word
\* guess() returns in GUESS mode passes this filter.
C16_GuessFilter ==
    /\ \A x \in CorpusWords(wordfreqs) : x \in Eligible("GUESS") <=> GuessFilter(x)
    /\ (fpc = "input" /\ mode = "GUESS" /\ play_guess # None) => GuessFilter(play_guess)

C16_Witness ==
    /\ fpc = "input"
    /\ mode = "GUESS"
    /\ play_guess # None
    /\ Cardinality(included_letters) >= 2
    /\ disallowed_letters # {}
    /\ \E i \in 1..5 : exact_matches[i] # Unset
    /\ \E x \in CorpusWords(wordfreqs) \ bad_guesses : ~GuessFilter(x)

RECURSIVE FreqSum(_, _)
FreqSum(wf, words) ==
    IF words = {} THEN 0
    ELSE LET w == CHOOSE x \in words : TRUE
         IN Freq(wf, w) + FreqSum(wf, words \ {w})

RECURSIVE OccurrenceSum(_, _, _)
OccurrenceSum(wf, words, c) ==
    IF words = {} THEN 0
    ELSE LET w == CHOOSE x \in words : TRUE
         IN Freq(wf, w) * Cardinality({i \in 1..5 : w[i] = c})
              + OccurrenceSum(wf, words \ {w}, c)

\* sum of agg over the distinct letters of w, position by position
RECURSIVE DistinctLetterSum(_, _, _)
DistinctLetterSum(agg, w, i) ==
    IF i > Len(w) THEN 0
    ELSE (IF w[i] \in {w[j] : j \in 1..(i - 1)} THEN 0 ELSE agg[w[i]])
           + DistinctLetterSum(agg, w, i + 1)

\* corpus words matched by the EXPLORE regexp, rejected ones included
ExploreMatched ==
    {w \in CorpusWords(wordfreqs) :
        regexp_explore(exact_matches, disallowed_letters, included_letters, w)}

\* C17 as claimed: the aggregate of a letter c is the sum of the frequencies
\* of the eligible words containing c, each word counted once; a word's
\* EXPLORE score is the sum of the aggregates of its distinct letters.
C17_AggregateOncePerWord ==
    [][ (fpc = "guess" /\ mode = "EXPLORE") =>
          LET agg == [c \in Alphabet |->
                        FreqSum(wordfreqs, {w \in Eligible("EXPLORE") : c \in Range(w)})]
          IN /\ letter_scores' = agg
             /\ \A w \in CorpusWords(wordfreqs) :
                  word_score_explore(letter_scores', w) = DistinctLetterSum(agg, w, 1) ]_vars

\* C17 as amended: the aggregate of a letter c is the sum, over the corpus
\* words matched by the EXPLORE filter (rejected guesses included), of the
\* word's frequency times the number of occurrences of c in the word; a
\* word's EXPLORE score is the sum of the aggregates of its distinct letters.
C17_AggregatePerOccurrence ==
    [][ (fpc = "guess" /\ mode = "EXPLORE") =>
          LET agg == [c \in Alphabet |-> OccurrenceSum(wordfreqs, ExploreMatched, c)]
          IN /\ letter_scores' = agg
             /\ \A w \in CorpusWords(wordfreqs) :
                  word_score_explore(letter_scores', w) = DistinctLetterSum(agg, w, 1) ]_vars

C17_Witness ==
    /\ fpc = "input"
    /\ mode = "EXPLORE"
    /\ W_apple \in bad_guesses
    /\ letter_scores["p"] = 10
    /\ play_guess # None

----------------------------------------------------------------------------
(* Claims about the feedback computation, the build and reverse soundness *)

\* C18: the symbol at position i is g iff guess[i] = word[i], y iff
\* guess[i] # word[i] and guess[i] occurs in the word, b iff guess[i] does not
\* occur in the word; the code of a word against itself is all-correct.
C18_PerLetterFeedback ==
    hpc = "returned" =>
        /\ Len(h_res) = 5
        /\ \A i \in 1..5 :
             /\ h_res[i] = "g" <=> h_guess[i] = h_word[i]
             /\ h_res[i] = "y" <=> (h_guess[i] # h_word[i] /\ h_guess[i] \in Range(h_word))
             /\ h_res[i] = "b" <=> h_guess[i] \notin Range(h_word)
        /\ (h_guess = h_word => h_res = S_ggggg)

C18_Witness ==
    /\ hpc = "returned"
    /\ Range(h_res) = HintLetters
    /\ \E i, j \in 1..5 : i # j /\ h_guess[i] = h_guess[j] /\ h_res[i] # h_res[j]

\* the set the claim gives for index[k]
Producers(k) ==
    {w \in words_file : \E g \in dict_file \cup words_file : get_hint_str(w, g) = k}

\* index[k], an absent key read as the empty set
IndexEntry(k) == IF k \in DOMAIN inv_index THEN inv_index[k] ELSE {}

\* C19: after a build from the empty index, index[k] is the set of candidate
\* words w for which some guess of the dictionary or the candidate words has
\* feedback k against w, for every code k; a further build with the same
\* inputs leaves the index unchanged.
C19_BuildIsCrossProduct ==
    /\ [](builds >= 1 =>
            /\ DOMAIN inv_index \subseteq CanonicalCodes
            /\ \A k \in CanonicalCodes : IndexEntry(k) = Producers(k))
    /\ [][builds >= 1 => inv_index' = inv_index]_vars

C19_Witness ==
    /\ builds = 2
    /\ Cardinality(DOMAIN inv_index) >= 5
    /\ \E k \in DOMAIN inv_index : k # S_ggggg /\ Cardinality(inv_index[k]) >= 2

\* C20: with a freshly built index and every processed hint the feedback of
\* an acceptable guess against the hidden candidate word, the hidden word is
\* in the running candidate set after any number of processed hints (so the
\* set is never empty).
C20_AnswerNeverEliminated ==
    accumulate # <<>> =>
        /\ hidden \in CandidateSet
        /\ \A i \in DOMAIN accumulate : accumulate[i][2] >= 1

C20_Witness ==
    /\ Len(accumulate) = 3
    /\ CandidateSet = {hidden}
    /\ Cardinality(Range(ProcessedCodes)) >= 2
    /\ accumulate[1][2] >= 2

====
